---- MODULE Spec2Model ----
(***************************************************************************)
(* TimeBackup (src/time_backup.py): the Timer coordinator (create_backup,  *)
(* on_message, loop, start/stop, set_enabled), the archive builder         *)
(* package_zip with its progress callback send_now, and the pure functions *)
(* parse_paths and parse_interval.                                         *)
(*                                                                         *)
(* Strings that the code inspects character by character (rules, paths,    *)
(* interval strings) are sequences of one-character strings.               *)
(***************************************************************************)
EXTENDS Integers, Sequences, FiniteSets, TLC

(***************************************************************************)
(* Bounds of the model.                                                    *)
(***************************************************************************)
MaxRuns == 2        \* create_backup threads alive at once
MaxTime == 2        \* seconds of wall-clock time that pass
MaxRules == 3       \* length of a rule list given to parse_paths
MaxIndex == 3       \* value of index at which the naming loop is cut off
MaxTerms == 3       \* terms in an interval string given to parse_interval
MaxTotal == 16      \* largest file count given to send_now

Range(s) == {s[i] : i \in 1..Len(s)}

(***************************************************************************)
(* parse_interval                                                          *)
(***************************************************************************)
Digits == {"0", "1", "2", "3", "4", "5", "6", "7", "8", "9"}

\* characters for which str.isdigit() is true and which int() does not
\* accept; "sup2" stands for the one character SUPERSCRIPT TWO
SuperDigits == {"sup2"}

\* s.isdigit()
isdigit(s) == s \in Digits \cup SuperDigits

\* int(digit or 1) raises ValueError
int_raises(digit) == \E i \in 1..Len(digit) : digit[i] \notin Digits

DigitVal(c) ==
    CASE c = "0" -> 0 [] c = "1" -> 1 [] c = "2" -> 2 [] c = "3" -> 3
      [] c = "4" -> 4 [] c = "5" -> 5 [] c = "6" -> 6 [] c = "7" -> 7
      [] c = "8" -> 8 [] c = "9" -> 9

\* time_map = {"s": 1, "m": 60, "h": 3600, "d": 3600 * 24}
TimeUnits == {"s", "m", "h", "d"}

time_map(c) ==
    CASE c = "s" -> 1 [] c = "m" -> 60 [] c = "h" -> 3600 [] c = "d" -> 3600 * 24

\* int(digit): the decimal value of a non-empty digit run
RECURSIVE IntOf(_)
IntOf(digit) ==
    IF digit = <<>> THEN 0
    ELSE 10 * IntOf(SubSeq(digit, 1, Len(digit) - 1)) + DigitVal(digit[Len(digit)])

\* add with a missing digit run counted as 0
add_or_0(result, digit, s) ==
    result + (IF digit = <<>> THEN 0 ELSE IntOf(digit))
             * (IF s \in TimeUnits THEN time_map(s) ELSE 1)

\* add(s): result + int(digit or 1) * time_map.get(s, 1)
add(result, digit, s) ==
    result + (IF digit = <<>> THEN 1 ELSE IntOf(digit))
             * (IF s \in TimeUnits THEN time_map(s) ELSE 1)

\* the for loop of parse_interval over the characters of str, from the state
\* (digit, result); raised: a call of add has raised and ended the loop
RECURSIVE IntervalLoop(_, _, _)
IntervalLoop(str, digit, result) ==
    IF str = <<>> THEN [digit |-> digit, result |-> result, raised |-> FALSE]
    ELSE LET s == Head(str) IN
         IF isdigit(s) THEN IntervalLoop(Tail(str), Append(digit, s), result)
         ELSE IF s \in TimeUnits
              THEN IF int_raises(digit)
                   THEN [digit |-> digit, result |-> result, raised |-> TRUE]
                   ELSE IntervalLoop(Tail(str), <<>>, add(result, digit, s))
              ELSE IntervalLoop(Tail(str), digit, result)

\* parse_interval ends with ValueError
parse_interval_raises(str_interval) ==
    LET end == IntervalLoop(str_interval \o <<" ">>, <<>>, 0) IN
    end.raised \/ int_raises(end.digit)

\* what parse_interval returns when it does not raise
parse_interval(str_interval) ==
    LET end == IntervalLoop(str_interval \o <<" ">>, <<>>, 0) IN
    IF end.digit # <<>> THEN add(end.result, end.digit, "") ELSE end.result

(***************************************************************************)
(* parse_paths over a flat directory.  A rule is a string; its first       *)
(* character "!" makes it an exclude rule.  Glob patterns of the model are *)
(* the wildcard "*" (every entry) and literal names.                       *)
(***************************************************************************)
\* the directory's entries, in the order rglob yields them
FsOrder == << <<"a">>, <<"b">>, <<"c">>, <<"d">>, <<"e">>, <<"f">>, <<"g">>, <<"h">>,
              <<"L">> >>

is_file(path) == path \in Range(FsOrder)

GlobMatch(pattern, path) == pattern = <<"*">> \/ pattern = path

\* base_path.rglob(pattern)
rglob(pattern) == SelectSeq(FsOrder, LAMBDA p : GlobMatch(pattern, p))

\* list.remove(x): deletes the first element equal to x
RECURSIVE ListRemove(_, _)
ListRemove(paths, x) ==
    IF paths = <<>> THEN <<>>
    ELSE IF Head(paths) = x THEN Tail(paths)
         ELSE <<Head(paths)>> \o ListRemove(Tail(paths), x)

\* the body run for one matched path: lines 86-91 and 94-98
PathStep(paths, path, pass_path) ==
    IF pass_path
    THEN IF path \in Range(paths) THEN ListRemove(paths, path) ELSE paths
    ELSE Append(paths, path)

RECURSIVE PathSteps(_, _, _)
PathSteps(paths, matched, pass_path) ==
    IF matched = <<>> THEN paths
    ELSE PathSteps(PathStep(paths, Head(matched), pass_path), Tail(matched), pass_path)

startswith_bang(rule) == rule # <<>> /\ Head(rule) = "!"

\* rule[1:]
Strip1(rule) == IF rule = <<>> THEN <<>> ELSE Tail(rule)

\* the paths one rule acts on: Path(rule[1:]) when that is a file, otherwise
\* the glob expansion of the pattern
RuleMatches(rule) ==
    IF is_file(Strip1(rule)) THEN <<Strip1(rule)>>
    ELSE rglob(IF startswith_bang(rule) THEN Strip1(rule) ELSE rule)

\* one iteration of "for rule in rules"
ApplyRule(paths, rule) == PathSteps(paths, RuleMatches(rule), startswith_bang(rule))

RECURSIVE parse_paths_from(_, _)
parse_paths_from(paths, rules) ==
    IF rules = <<>> THEN paths
    ELSE parse_paths_from(ApplyRule(paths, Head(rules)), Tail(rules))

parse_paths(rules) == parse_paths_from(<<>>, rules)

(***************************************************************************)
(* send_now, the progress callback create_backup hands to package_zip      *)
(***************************************************************************)
\* int(all / 8) for a non-negative all
Int8th(all) == all \div 8

\* now % int(all / 8) raises ZeroDivisionError when int(all / 8) = 0
send_now_raises(all, now_) == Int8th(all) = 0

\* the condition under which send_now emits a status line
send_now_emits(all, now_) ==
    /\ ~send_now_raises(all, now_)
    /\ (now_ % Int8th(all) = 0 \/ all = now_)

(***************************************************************************)
(* Configuration (class Configure) of the modelled instances               *)
(***************************************************************************)
\* Configure.files_rules of the instances checked: one selecting the whole
\* directory, one selecting two files
ConfigRules == { << <<"*">> >>, << <<"a">>, <<"b">> >> }

\* Configure.save_game_timeout: negative waits for ever
ConfigTimeouts == {-1, 5}

\* the configurations checked, as <<files_rules, save_game_timeout, interval>>:
\* the interval is "0s", or a string with a digit that int() rejects
Configs ==
    (ConfigRules \X ConfigTimeouts \X {<<"0", "s">>})
        \cup {<< << <<"*">> >>, 5, <<"sup2", "s">> >>}

\* what f.write(file) / f.add(file) does for each file of the directory:
\* "ok", "perm" (PermissionError) or "err" (another exception)
file_mode(p) == IF p = <<"a">> THEN "perm" ELSE IF p = <<"b">> THEN "err" ELSE "ok"

\* str(path).endswith("session.lock"): the entry "L" stands for session.lock
is_session_lock(path) == path # <<>> /\ path[Len(path)] = "L"

\* lines 169-177 of package_zip
selected_files(rules) == SelectSeq(parse_paths(rules), LAMBDA p : ~is_session_lock(p))

Runs == 1..MaxRuns

VARIABLES
    enabled,            \* config.enabled
    files_rules,        \* config.files_rules
    save_game_timeout,  \* config.save_game_timeout
    interval,           \* config.interval
    _backup_ing,        \* Timer._backup_ing
    _saved_game_event,  \* Timer._saved_game_event is set
    _stop_event,        \* Timer._stop_event is set
    creating_backup,    \* Timer.creating_backup is locked
    last_backup_time,   \* Timer.last_backup_time
    now,                \* time.time(), in seconds since the Timer was made
    server_startup,     \* server.is_server_startup()
    autosave,           \* the host's automatic saving (save-on / save-off)
    archives,           \* the archive files in backup_path that a new archive
                        \* can collide with: those named after the current
                        \* second (older names are never computed again)
    pc,                 \* per create_backup thread: its position
    source,             \* per thread: called with a command source (manual)
    zip,                \* per thread: package_zip's locals
    report,             \* per thread: what it told the users
    hist,               \* per thread: host commands and lock operations it made
    loop_pc,            \* the position of Timer.loop
    pp,                 \* a call of parse_paths in progress
    iv,                 \* a call of parse_interval and its arguments
    sn,                 \* a call of send_now and its arguments
    drain_pc            \* the position of on_mcdr_stop

vars == << enabled, files_rules, save_game_timeout, interval, _backup_ing, _saved_game_event,
           _stop_event, creating_backup, last_backup_time, now, server_startup,
           autosave, archives, pc, source, zip, report, hist, loop_pc, pp, iv, sn,
           drain_pc >>

config_vars == << files_rules, save_game_timeout, interval >>

\* Timer.backup_interval
backup_interval == parse_interval(interval)
timer_vars == << _backup_ing, _saved_game_event, _stop_event, creating_backup,
                 last_backup_time >>
host_vars == << now, server_startup, autosave, archives >>
run_vars == << pc, source, zip, report, hist >>

NoZip == [state |-> "none", path |-> -1, files |-> <<>>, index |-> 0,
          added |-> <<>>, warned |-> <<>>, emitted |-> 0, raised |-> FALSE]
NoHist == [entered |-> FALSE, save_off |-> 0, save_on |-> 0, released |-> 0,
           acked |-> FALSE, packaging |-> FALSE]
NoPP == [rules |-> <<>>, i |-> 0, paths |-> <<>>]
NoIV == [terms |-> <<>>, k |-> 0, tail |-> <<>>, done |-> FALSE,
         a |-> 0, b |-> 0, ab |-> 0, abtail |-> 0]
NoSN == [all |-> 0, now |-> 0, out |-> "none"]

\* Timer.__init__ (lines 130-141), with the configuration loaded
Init ==
    /\ enabled = TRUE
    /\ \E c \in Configs :
        files_rules = c[1] /\ save_game_timeout = c[2] /\ interval = c[3]
    /\ _backup_ing = FALSE
    /\ _saved_game_event = FALSE
    /\ _stop_event = FALSE
    /\ creating_backup = FALSE
    /\ now = 0
    /\ last_backup_time = 0
    /\ server_startup = FALSE
    /\ autosave = TRUE
    /\ archives = {}
    /\ pc = [r \in Runs |-> "none"]
    /\ source = [r \in Runs |-> FALSE]
    /\ zip = [r \in Runs |-> NoZip]
    /\ report = [r \in Runs |-> "none"]
    /\ hist = [r \in Runs |-> NoHist]
    /\ loop_pc = "none"
    /\ pp = NoPP
    /\ iv = NoIV
    /\ sn = NoSN
    /\ drain_pc = "none"

(***************************************************************************)
(* create_backup: each call runs on a thread of its own (@new_thread).     *)
(* Consecutive lines that touch only the thread's own data are one step    *)
(* together with the next line that touches shared data.                   *)
(***************************************************************************)
Free(r) == pc[r] \in {"none", "done"}

\* the thread slot a new call takes: the lowest free one
FreeSlot(r) == Free(r) /\ \A q \in Runs : q < r => ~Free(q)

\* the thread of a new call, before its first line
Spawn(r, src) ==
    /\ FreeSlot(r)
    /\ pc' = [pc EXCEPT ![r] = "check_busy"]
    /\ source' = [source EXCEPT ![r] = src]
    /\ zip' = [zip EXCEPT ![r] = NoZip]
    /\ report' = [report EXCEPT ![r] = "none"]
    /\ hist' = [hist EXCEPT ![r] = NoHist]

\* a manual call that also stamps last_backup_time
Make_stamps(r) ==
    /\ Spawn(r, TRUE)
    /\ last_backup_time' = now
    /\ UNCHANGED << enabled, config_vars, _backup_ing, _saved_game_event, _stop_event,
                    creating_backup, host_vars, loop_pc, pp, iv, sn, drain_pc >>

\* the command "!!auto-backup make": create_backup(source, ctx)
Make(r) ==
    /\ Spawn(r, TRUE)
    /\ UNCHANGED << enabled, config_vars, timer_vars, host_vars, loop_pc, pp, iv, sn,
                    drain_pc >>

\* the condition of line 239
Rejects(src) == _backup_ing /\ src

\* lines 239-241
CheckBusy(r) ==
    /\ pc[r] = "check_busy"
    /\ IF Rejects(source[r])
       THEN /\ report' = [report EXCEPT ![r] = "busy"]
            /\ pc' = [pc EXCEPT ![r] = "done"]
       ELSE /\ pc' = [pc EXCEPT ![r] = "check_enabled"]
            /\ UNCHANGED report
    /\ UNCHANGED << enabled, config_vars, timer_vars, host_vars, source, zip, hist,
                    loop_pc, pp, iv, sn, drain_pc >>

\* the enabled flag ignored
Disabled_ignored == FALSE

\* the condition of line 243
Disabled == ~enabled

\* lines 243-244
CheckEnabled(r) ==
    /\ pc[r] = "check_enabled"
    /\ pc' = [pc EXCEPT ![r] = IF Disabled THEN "done" ELSE "begin"]
    /\ UNCHANGED << enabled, config_vars, timer_vars, host_vars, source, zip, report,
                    hist, loop_pc, pp, iv, sn, drain_pc >>

\* lines 246-252: creating_backup.acquire(blocking=False) with its result
\* unused, the flag, "save-off" and "save-all flush"
Begin(r) ==
    /\ pc[r] = "begin"
    /\ creating_backup' = TRUE
    /\ _backup_ing' = TRUE
    /\ autosave' = FALSE
    /\ hist' = [hist EXCEPT ![r].entered = TRUE, ![r].save_off = @ + 1]
    /\ pc' = [pc EXCEPT ![r] = "clear"]
    /\ UNCHANGED << enabled, config_vars, _saved_game_event, _stop_event,
                    last_backup_time, now, server_startup, archives, source, zip,
                    report, loop_pc, pp, iv, sn, drain_pc >>

\* the event left as it is
EventClear_kept(ev) == ev

\* Event.clear()
EventClear(ev) == FALSE

\* line 253
Clear(r) ==
    /\ pc[r] = "clear"
    /\ _saved_game_event' = EventClear(_saved_game_event)
    /\ hist' = [hist EXCEPT ![r].acked = FALSE]
    /\ pc' = [pc EXCEPT ![r] = "wait"]
    /\ UNCHANGED << enabled, config_vars, _backup_ing, _stop_event, creating_backup,
                    last_backup_time, host_vars, source, zip, report, loop_pc, pp,
                    iv, sn, drain_pc >>

\* package_zip's lines 161-180: the file list, the target path named after
\* the current second, and index = 1
ZipStart == [NoZip EXCEPT !.state = "naming", !.path = now, !.index = 1,
                          !.files = selected_files(files_rules)]

\* lines 255-256 with the wait returning True, then lines 262-264 and
\* package_zip's lines 161-190: while path.exists() is entered when the
\* target exists; otherwise the archive file is created, or opening it fails
\* and lines 281-286 run
WaitSaved(r) ==
    /\ pc[r] = "wait"
    /\ _saved_game_event
    /\ hist' = [hist EXCEPT ![r].packaging = TRUE]
    /\ IF ZipStart.path \in archives
       THEN /\ zip' = [zip EXCEPT ![r] = ZipStart]
            /\ pc' = [pc EXCEPT ![r] = "pkg_name"]
            /\ UNCHANGED << archives, report, _backup_ing >>
       ELSE \/ /\ zip' = [zip EXCEPT ![r] = [ZipStart EXCEPT !.state = "open",
                                                              !.index = 0]]
               /\ archives' = archives \cup {ZipStart.path}
               /\ pc' = [pc EXCEPT ![r] = "pkg_file"]
               /\ UNCHANGED << report, _backup_ing >>
            \/ /\ zip' = [zip EXCEPT ![r] = [ZipStart EXCEPT !.raised = TRUE]]
               /\ report' = [report EXCEPT ![r] = "error"]
               /\ _backup_ing' = FALSE
               /\ pc' = [pc EXCEPT ![r] = "fin_release"]
               /\ UNCHANGED archives
    /\ UNCHANGED << enabled, config_vars, _saved_game_event, _stop_event,
                    creating_backup, last_backup_time, now, server_startup, autosave,
                    source, loop_pc, pp, iv, sn, drain_pc >>

\* the flag left as it is
AfterTimeout_kept(flag) == flag

\* what lines 257-258 leave in _backup_ing
AfterTimeout(flag) == FALSE

\* lines 255-259, the wait returning False after the timeout
WaitTimeout(r) ==
    /\ pc[r] = "wait"
    /\ save_game_timeout >= 0
    /\ ~_saved_game_event
    /\ report' = [report EXCEPT ![r] = "timeout"]
    /\ _backup_ing' = AfterTimeout(_backup_ing)
    /\ pc' = [pc EXCEPT ![r] = "done"]
    /\ UNCHANGED << enabled, config_vars, _saved_game_event, _stop_event,
                    creating_backup, last_backup_time, host_vars, source, zip, hist,
                    loop_pc, pp, iv, sn, drain_pc >>

\* lines 181-183, one iteration: path.exists() is true (the existing archive
\* is never removed) and index grows; path.with_name(...) builds the suffixed
\* path but the statement does not assign it, so path stays what it was
PkgNameLoop(r) ==
    /\ pc[r] = "pkg_name"
    /\ zip' = [zip EXCEPT ![r].index = IF @ < MaxIndex THEN @ + 1 ELSE @]
    /\ UNCHANGED << enabled, config_vars, timer_vars, host_vars, pc, source, report,
                    hist, loop_pc, pp, iv, sn, drain_pc >>

\* lines 193-204: one iteration of the loop over the files
ZipFile_(z) ==
    LET file == z.files[z.index + 1]
        all == Len(z.files)
    IN [z EXCEPT !.index = z.index + 1,
                 !.added = IF file_mode(file) = "ok" THEN Append(z.added, file)
                           ELSE z.added,
                 !.warned = IF file_mode(file) = "perm" THEN Append(z.warned, file)
                            ELSE z.warned,
                 !.emitted = IF send_now_emits(all, z.index + 1) THEN z.emitted + 1
                             ELSE z.emitted,
                 !.raised = send_now_raises(all, z.index + 1)]

\* lines 192-207: the loop, left by what the callback raises (it runs
\* outside the try), and f.close() after it
RECURSIVE ZipLoop(_)
ZipLoop(z) ==
    IF z.raised THEN z
    ELSE IF z.index = Len(z.files) THEN [z EXCEPT !.state = "closed"]
         ELSE ZipLoop(ZipFile_(z))

\* lines 192-207, then lines 276-280 or lines 281-284, then line 286
PkgFiles(r) ==
    /\ pc[r] = "pkg_file"
    /\ zip' = [zip EXCEPT ![r] = ZipLoop(zip[r])]
    /\ report' = [report EXCEPT ![r] = IF zip'[r].raised THEN "error" ELSE "complete"]
    /\ _backup_ing' = FALSE
    /\ pc' = [pc EXCEPT ![r] = "fin_release"]
    /\ UNCHANGED << enabled, config_vars, _saved_game_event, _stop_event,
                    creating_backup, last_backup_time, host_vars, source, hist,
                    loop_pc, pp, iv, sn, drain_pc >>

\* line 287: releasing an unlocked Lock raises RuntimeError, which ends the
\* thread before lines 288-290
FinRelease(r) ==
    /\ pc[r] = "fin_release"
    /\ IF creating_backup
       THEN /\ creating_backup' = FALSE
            /\ hist' = [hist EXCEPT ![r].released = @ + 1]
            /\ pc' = [pc EXCEPT ![r] = "fin_save_on"]
       ELSE /\ pc' = [pc EXCEPT ![r] = "done"]
            /\ UNCHANGED << creating_backup, hist >>
    /\ zip' = [zip EXCEPT ![r] = NoZip]
    /\ UNCHANGED << enabled, config_vars, _backup_ing, _saved_game_event, _stop_event,
                    last_backup_time, host_vars, source, report, loop_pc, pp, iv, sn,
                    drain_pc >>

\* lines 288-290
FinSaveOn(r) ==
    /\ pc[r] = "fin_save_on"
    /\ autosave' = TRUE
    /\ hist' = [hist EXCEPT ![r].save_on = @ + 1]
    /\ pc' = [pc EXCEPT ![r] = "done"]
    /\ UNCHANGED << enabled, config_vars, timer_vars, now, server_startup, archives,
                    source, zip, report, loop_pc, pp, iv, sn, drain_pc >>

(***************************************************************************)
(* The other entry points of Timer                                         *)
(***************************************************************************)
\* the phases of a run: after "save-all flush" until the wait ends, and in
\* package_zip
SaveAwaiting(r) == pc[r] \in {"clear", "wait"}
Packaging(r) == pc[r] \in {"pkg_name", "pkg_file"}
Active(r) == SaveAwaiting(r) \/ Packaging(r)

\* the condition of on_message, lines 225-229; matching: content is one of
\* config.saved_world_keywords
AckHonoured(matching) == _backup_ing /\ ~_saved_game_event /\ matching

\* on_info -> Timer.on_message(content), lines 224-230
OnMessage ==
    \E matching \in BOOLEAN :
        /\ IF AckHonoured(matching)
           THEN /\ _saved_game_event' = TRUE
                /\ hist' = [r \in Runs |->
                              IF SaveAwaiting(r) THEN [hist[r] EXCEPT !.acked = TRUE]
                              ELSE hist[r]]
           ELSE UNCHANGED << _saved_game_event, hist >>
        /\ UNCHANGED << enabled, config_vars, _backup_ing, _stop_event, creating_backup,
                        last_backup_time, host_vars, pc, source, zip, report, loop_pc,
                        pp, iv, sn, drain_pc >>

\* set_enabled, lines 143-145 ("!!auto-backup enable" / "disable")
SetEnabled ==
    \E flag \in BOOLEAN :
        /\ enabled' = flag
        /\ UNCHANGED << config_vars, timer_vars, host_vars, run_vars, loop_pc, pp,
                        iv, sn, drain_pc >>

\* start, lines 292-293 (on_load calls it once)
Start ==
    /\ loop_pc = "none"
    /\ loop_pc' = "poll"
    /\ UNCHANGED << enabled, config_vars, timer_vars, host_vars, run_vars, pp, iv,
                    sn, drain_pc >>

\* stop, lines 295-296
Stop ==
    /\ _stop_event' = TRUE
    /\ UNCHANGED << enabled, config_vars, _backup_ing, _saved_game_event,
                    creating_backup, last_backup_time, host_vars, run_vars, loop_pc,
                    pp, iv, sn, drain_pc >>

(***************************************************************************)
(* Timer.loop                                                              *)
(***************************************************************************)
\* due as soon as one interval has passed
Due_at_once == now - last_backup_time >= backup_interval

\* the condition of line 309
Due == now - last_backup_time > backup_interval

\* the stop event never seen
Stopped_unseen == FALSE

\* what _stop_event.wait(1) returns at line 305
Stopped == _stop_event

\* lines 304-310, one pass of the inner loop: the three tests are read in
\* one step; an exception of parse_interval at line 309 is outside the try of
\* lines 313-323 and ends loop(), and with it the thread
LoopPoll ==
    /\ loop_pc = "poll"
    /\ loop_pc' = IF Stopped THEN "exited"
                  ELSE IF ~enabled THEN "poll"
                  ELSE IF parse_interval_raises(interval) THEN "died"
                  ELSE IF Due THEN "startup" ELSE "poll"
    /\ UNCHANGED << enabled, config_vars, timer_vars, host_vars, run_vars, pp, iv,
                    sn, drain_pc >>

\* line 312 when the server has not started: back to the inner loop
LoopNotStarted ==
    /\ loop_pc = "startup"
    /\ ~server_startup
    /\ loop_pc' = "poll"
    /\ UNCHANGED << enabled, config_vars, timer_vars, host_vars, run_vars, pp, iv,
                    sn, drain_pc >>

\* what line 314 stores in last_backup_time
TriggerTime == now

\* lines 312-321: the scheduled call of create_backup, without a source
LoopTrigger(r) ==
    /\ loop_pc = "startup"
    /\ server_startup
    /\ last_backup_time' = TriggerTime
    /\ Spawn(r, FALSE)
    /\ loop_pc' = "poll"
    /\ UNCHANGED << enabled, config_vars, _backup_ing, _saved_game_event, _stop_event,
                    creating_backup, host_vars, pp, iv, sn, drain_pc >>

(***************************************************************************)
(* The host                                                                *)
(***************************************************************************)
\* a second of wall-clock time passes
Tick ==
    /\ now < MaxTime
    /\ now' = now + 1
    /\ archives' = {}
    /\ UNCHANGED << enabled, config_vars, timer_vars, server_startup, autosave,
                    run_vars, loop_pc, pp, iv, sn, drain_pc >>

\* the server finishes starting
ServerStartup ==
    /\ ~server_startup
    /\ server_startup' = TRUE
    /\ UNCHANGED << enabled, config_vars, timer_vars, now, autosave, archives,
                    run_vars, loop_pc, pp, iv, sn, drain_pc >>

RunStep(r) ==
    \/ CheckBusy(r) \/ CheckEnabled(r) \/ Begin(r) \/ Clear(r) \/ WaitSaved(r)
    \/ WaitTimeout(r) \/ PkgNameLoop(r) \/ PkgFiles(r)
    \/ FinRelease(r) \/ FinSaveOn(r)

Next ==
    \/ \E r \in Runs : Make(r)
    \/ \E r \in Runs : RunStep(r)
    \/ \E r \in Runs : LoopTrigger(r)
    \/ OnMessage \/ SetEnabled \/ Start \/ Stop
    \/ LoopPoll \/ LoopNotStarted
    \/ Tick \/ ServerStartup

Spec == Init /\ [][Next]_vars

(***************************************************************************)
(* on_mcdr_stop, which MCDR calls once when it stops                       *)
(***************************************************************************)
\* lines 369-371: timer.stop(), then creating_backup.locked()
McdrStop ==
    /\ drain_pc = "none"
    /\ _stop_event' = TRUE
    /\ drain_pc' = IF creating_backup THEN "acquire" ELSE "returned"
    /\ UNCHANGED << enabled, config_vars, _backup_ing, _saved_game_event,
                    creating_backup, last_backup_time, host_vars, run_vars, loop_pc,
                    pp, iv, sn >>

\* line 372, creating_backup.acquire(timeout=300) returning True: the lock
\* has been released and is taken
DrainAcquired ==
    /\ drain_pc = "acquire"
    /\ ~creating_backup
    /\ creating_backup' = TRUE
    /\ drain_pc' = "release"
    /\ UNCHANGED << enabled, config_vars, _backup_ing, _saved_game_event, _stop_event,
                    last_backup_time, host_vars, run_vars, loop_pc, pp, iv, sn >>

\* line 372, the acquire returning False: the lock has stayed held for 300 s
DrainExpired ==
    /\ drain_pc = "acquire"
    /\ creating_backup
    /\ drain_pc' = "returned"
    /\ UNCHANGED << enabled, config_vars, timer_vars, host_vars, run_vars, loop_pc,
                    pp, iv, sn >>

\* line 373: releasing an unlocked Lock raises RuntimeError
DrainRelease ==
    /\ drain_pc = "release"
    /\ IF creating_backup
       THEN creating_backup' = FALSE /\ drain_pc' = "returned"
       ELSE drain_pc' = "failed" /\ UNCHANGED creating_backup
    /\ UNCHANGED << enabled, config_vars, _backup_ing, _saved_game_event, _stop_event,
                    last_backup_time, host_vars, run_vars, loop_pc, pp, iv, sn >>

NextDrain == Next \/ McdrStop \/ DrainAcquired \/ DrainExpired \/ DrainRelease

\* the instance with a save timeout, every file selected and the interval "0s"
InitDrain ==
    /\ Init
    /\ files_rules = << <<"*">> >>
    /\ save_game_timeout = 5
    /\ interval = <<"0", "s">>

SpecDrain == InitDrain /\ [][NextDrain]_vars

(***************************************************************************)
(* parse_paths run rule by rule on bounded rule lists                      *)
(***************************************************************************)
\* the rules tried: literal names, the wildcard, their exclusions, and a rule
\* whose tail rule[1:] names a file
RuleSet == { <<"a">>, <<"b">>, <<"*">>, <<"!", "a">>, <<"!", "*">>, <<"x", "a">> }

RECURSIVE SeqsUpTo(_, _)
SeqsUpTo(S, n) ==
    IF n = 0 THEN {<<>>}
    ELSE LET shorter == SeqsUpTo(S, n - 1)
         IN shorter \cup {Append(q, x) : q \in shorter, x \in S}

InitPaths ==
    /\ enabled = TRUE
    /\ files_rules = << <<"*">> >>
    /\ save_game_timeout = -1
    /\ interval = <<"0", "s">>
    /\ _backup_ing = FALSE
    /\ _saved_game_event = FALSE
    /\ _stop_event = FALSE
    /\ creating_backup = FALSE
    /\ now = 0
    /\ last_backup_time = 0
    /\ server_startup = FALSE
    /\ autosave = TRUE
    /\ archives = {}
    /\ pc = [r \in Runs |-> "none"]
    /\ source = [r \in Runs |-> FALSE]
    /\ zip = [r \in Runs |-> NoZip]
    /\ report = [r \in Runs |-> "none"]
    /\ hist = [r \in Runs |-> NoHist]
    /\ loop_pc = "none"
    /\ pp \in {[NoPP EXCEPT !.rules = rs] : rs \in SeqsUpTo(RuleSet, MaxRules)}
    /\ iv = NoIV
    /\ sn = NoSN
    /\ drain_pc = "none"

\* one iteration of the loop of lines 83-98
PathsRule ==
    /\ pp.i < Len(pp.rules)
    /\ pp' = [pp EXCEPT !.i = pp.i + 1, !.paths = ApplyRule(pp.paths, pp.rules[pp.i + 1])]
    /\ UNCHANGED << enabled, config_vars, timer_vars, host_vars, run_vars, loop_pc,
                    iv, sn, drain_pc >>

NextPaths == PathsRule

SpecPaths == InitPaths /\ [][NextPaths]_vars

(***************************************************************************)
(* parse_interval called on bounded interval strings: a sequence of terms  *)
(* (a digit run, possibly empty, and a unit) cut in two at k, and a digit  *)
(* run after the last term                                                 *)
(***************************************************************************)
DigitRuns == { <<>>, <<"2">>, <<"1", "0">> }
TailRuns == { <<>>, <<"7">>, <<"0", "9">> }

TermSet == {[digits |-> d, unit |-> u] : d \in DigitRuns, u \in TimeUnits}

\* the string of a term, and of a sequence of terms
TermStr(t) == t.digits \o <<t.unit>>

RECURSIVE TermsStr(_)
TermsStr(terms) ==
    IF terms = <<>> THEN <<>> ELSE TermStr(Head(terms)) \o TermsStr(Tail(terms))

InitInterval ==
    /\ enabled = TRUE
    /\ files_rules = << <<"*">> >>
    /\ save_game_timeout = -1
    /\ interval = <<"0", "s">>
    /\ _backup_ing = FALSE
    /\ _saved_game_event = FALSE
    /\ _stop_event = FALSE
    /\ creating_backup = FALSE
    /\ now = 0
    /\ last_backup_time = 0
    /\ server_startup = FALSE
    /\ autosave = TRUE
    /\ archives = {}
    /\ pc = [r \in Runs |-> "none"]
    /\ source = [r \in Runs |-> FALSE]
    /\ zip = [r \in Runs |-> NoZip]
    /\ report = [r \in Runs |-> "none"]
    /\ hist = [r \in Runs |-> NoHist]
    /\ loop_pc = "none"
    /\ pp = NoPP
    /\ iv \in {[NoIV EXCEPT !.terms = ts, !.k = k, !.tail = d] :
                 ts \in SeqsUpTo(TermSet, MaxTerms), k \in 0..MaxTerms, d \in TailRuns}
    /\ iv.k <= Len(iv.terms)
    /\ sn = NoSN
    /\ drain_pc = "none"

\* parse_interval called on the first k terms, on the other terms, on all the
\* terms, and on all the terms followed by the digit run
IntervalCall ==
    /\ ~iv.done
    /\ LET a == TermsStr(SubSeq(iv.terms, 1, iv.k))
           b == TermsStr(SubSeq(iv.terms, iv.k + 1, Len(iv.terms)))
       IN iv' = [iv EXCEPT !.done = TRUE,
                           !.a = parse_interval(a),
                           !.b = parse_interval(b),
                           !.ab = parse_interval(a \o b),
                           !.abtail = parse_interval(a \o b \o iv.tail)]
    /\ UNCHANGED << enabled, config_vars, timer_vars, host_vars, run_vars, loop_pc,
                    pp, sn, drain_pc >>

NextInterval == IntervalCall

SpecInterval == InitInterval /\ [][NextInterval]_vars

(***************************************************************************)
(* send_now called with a file count and the number of files done          *)
(***************************************************************************)
InitThrottle ==
    /\ enabled = TRUE
    /\ files_rules = << <<"*">> >>
    /\ save_game_timeout = -1
    /\ interval = <<"0", "s">>
    /\ _backup_ing = FALSE
    /\ _saved_game_event = FALSE
    /\ _stop_event = FALSE
    /\ creating_backup = FALSE
    /\ now = 0
    /\ last_backup_time = 0
    /\ server_startup = FALSE
    /\ autosave = TRUE
    /\ archives = {}
    /\ pc = [r \in Runs |-> "none"]
    /\ source = [r \in Runs |-> FALSE]
    /\ zip = [r \in Runs |-> NoZip]
    /\ report = [r \in Runs |-> "none"]
    /\ hist = [r \in Runs |-> NoHist]
    /\ loop_pc = "none"
    /\ pp = NoPP
    /\ iv = NoIV
    /\ sn \in {[NoSN EXCEPT !.all = a, !.now = n] : a \in 1..MaxTotal, n \in 1..MaxTotal}
    /\ sn.now <= sn.all
    /\ drain_pc = "none"

\* send_now(all, now), lines 266-272: it raises, emits a status line, or
\* returns without one
ThrottleCall ==
    /\ sn.out = "none"
    /\ sn' = [sn EXCEPT !.out = IF send_now_raises(sn.all, sn.now) THEN "raised"
                                ELSE IF send_now_emits(sn.all, sn.now) THEN "emitted"
                                ELSE "silent"]
    /\ UNCHANGED << enabled, config_vars, timer_vars, host_vars, run_vars, loop_pc,
                    pp, iv, drain_pc >>

NextThrottle == ThrottleCall

SpecThrottle == InitThrottle /\ [][NextThrottle]_vars

(***************************************************************************)
(* Properties                                                              *)
(***************************************************************************)
\* C1: at most one run is in SaveAwaiting or Packaging at any instant (a run
\* invoked while another is active never enters SaveAwaiting).
C1_SingleFlight == Cardinality({r \in Runs : Active(r)}) <= 1

\* C2: a run that entered SaveAwaiting has, when it has ended, asked the host
\* for "save-on" exactly once and released creating_backup exactly once.
C2_ResumeAndReleaseOnce ==
    \A r \in Runs :
        (pc[r] = "done" /\ hist[r].entered)
            => (hist[r].save_on = 1 /\ hist[r].released = 1)

\* the wait of line 256 returns once its timeout has passed
SpecFair == Spec /\ \A r \in Runs : WF_vars(WaitTimeout(r))

\* C3: a run waiting with a non-negative timeout and no acknowledgment ends
\* with the report "save timeout", without packaging and without an archive
\* being created, and leaves _backup_ing false, so that the next manual call
\* is not rejected as already running.
C3_TimeoutFails ==
    /\ [](\A r \in Runs :
            report[r] = "timeout"
                => (pc[r] = "done" /\ ~hist[r].packaging /\ zip[r] = NoZip))
    /\ [][\A r \in Runs :
            (pc[r] = "wait" /\ ~_saved_game_event /\ pc'[r] # "wait")
                => /\ save_game_timeout >= 0
                   /\ pc'[r] = "done"
                   /\ report'[r] = "timeout"
                   /\ archives' = archives
                   /\ ~Rejects(TRUE)']_vars
    /\ \A r \in Runs :
            [](pc[r] = "wait" /\ save_game_timeout >= 0
                  => <>(_saved_game_event \/ report[r] = "timeout"))

\* a run has timed out and a later manual call has passed the busy check and
\* begun
C3_Witness ==
    \E r, q \in Runs :
        /\ pc[r] = "done" /\ report[r] = "timeout"
        /\ source[q] /\ pc[q] = "clear"

\* C4: last_backup_time never decreases and changes only in the step in which
\* the loop triggers a scheduled call, which stores the current time before
\* that call has run its first line.
C4_LastBackupTime ==
    [][/\ last_backup_time' >= last_backup_time
       /\ last_backup_time' # last_backup_time
            => /\ loop_pc = "startup" /\ loop_pc' = "poll"
               /\ last_backup_time' = now
               /\ \E r \in Runs :
                    Free(r) /\ pc'[r] = "check_busy" /\ ~source'[r]]_vars

\* the loop has triggered, and both a scheduled and a manual run have run to
\* their end since
C4_Witness ==
    /\ last_backup_time > 0
    /\ \E r, q \in Runs :
        /\ ~source[r] /\ pc[r] = "done" /\ hist[r].save_on = 1
        /\ source[q] /\ pc[q] = "done" /\ hist[q].entered

\* the paths a rule list has matched, rule by rule
Matches(rule, p) == p \in Range(RuleMatches(rule))

\* the last of the first n rules that matches p is an exclude rule
LastMatchExcludes(rules, n, p) ==
    \E i \in 1..n :
        /\ Matches(rules[i], p) /\ startswith_bang(rules[i])
        /\ \A j \in (i + 1)..n : ~Matches(rules[j], p)

\* C5: a path whose last matching rule is an exclude rule is absent from the
\* result of parse_paths.
C5_LastExcludeWins ==
    \A p \in Range(FsOrder) :
        LastMatchExcludes(pp.rules, pp.i, p) => p \notin Range(pp.paths)

\* C6: the list parse_paths returns holds no path more than once.
C6_NoDuplicates ==
    \A i, j \in 1..Len(pp.paths) : pp.paths[i] = pp.paths[j] => i = j

\* C7: with enabled false and no run active, the steps of a call change
\* nothing but the call's own position: no report, no host command, no lock,
\* no flag, no event, no archive, and the call ends.
C7_DisabledIsNoOp ==
    [][\A r \in Runs :
          (/\ pc[r] \in {"check_busy", "check_enabled"}
           /\ ~enabled
           /\ \A q \in Runs : ~Active(q)
           /\ pc'[r] # pc[r])
            => /\ pc'[r] = (IF pc[r] = "check_busy" THEN "check_enabled" ELSE "done")
               /\ report'[r] = "none"
               /\ hist'[r] = NoHist
               /\ zip'[r] = NoZip
               /\ UNCHANGED << autosave, creating_backup, _backup_ing,
                               _saved_game_event, archives >>]_vars

\* a manual and a scheduled call have both ended as no-ops while disabled
C7_Witness ==
    /\ ~enabled
    /\ \E r, q \in Runs :
        /\ source[r] /\ ~source[q]
        /\ \A x \in {r, q} : pc[x] = "done" /\ report[x] = "none" /\ hist[x] = NoHist
    /\ autosave /\ ~creating_backup /\ ~_backup_ing

\* C8: a run has gone on to packaging only if a matching message set the
\* event while that run was waiting, after its own clear.
C8_AckWhileWaiting == \A r \in Runs : hist[r].packaging => hist[r].acked

\* one run has packaged after its acknowledgment, and a later run waits
\* without one
C8_Witness ==
    \E r, q \in Runs :
        /\ pc[r] = "done" /\ hist[r].packaging /\ hist[r].save_on = 1
        /\ pc[q] = "wait" /\ ~hist[q].acked /\ ~_saved_game_event

\* C9: _backup_ing is true exactly while some run is in SaveAwaiting or
\* Packaging.
C9_FlagIffActive == _backup_ing <=> \E r \in Runs : Active(r)

\* C10: package_zip, once the archive is open, attempts every file in order,
\* adds those that do not fail, warns for each permission-denied one, closes
\* the archive and returns, and the run is not reported as failed.
C10_PerFileFailuresTolerated ==
    \A r \in Runs :
        (pc[r] = "fin_release" /\ zip[r].state \in {"open", "closed"})
            => /\ zip[r].state = "closed"
               /\ zip[r].index = Len(zip[r].files)
               /\ zip[r].added = SelectSeq(zip[r].files, LAMBDA f : file_mode(f) = "ok")
               /\ zip[r].warned = SelectSeq(zip[r].files, LAMBDA f : file_mode(f) = "perm")
               /\ report[r] = "complete"

\* C11: a progress callback that raises after a file does not abort
\* package_zip: once the callback has raised, the remaining files have still
\* been attempted, the archive is closed and the run is not reported as failed.
C11_CallbackFailureIsolated ==
    \A r \in Runs :
        (pc[r] = "fin_release" /\ zip[r].raised /\ zip[r].state = "open")
            => /\ zip[r].index = Len(zip[r].files)
               /\ zip[r].state = "closed"
               /\ report[r] = "complete"

\* C12: when the target path already exists, package_zip picks a suffixed
\* path that did not exist before: after an iteration of the naming loop the
\* path it is about to write is not that of an existing archive.
C12_CollisionDisambiguated ==
    \A r \in Runs :
        (pc[r] = "pkg_name" /\ zip[r].index > 1) => zip[r].path \notin archives

\* C13: the loop leaves its polling only at a tick at which it reads stop not
\* signalled, enabled true and more than one interval elapsed since
\* last_backup_time; a scheduled call is made only from there, with the server
\* started, and then it is exactly one call and last_backup_time becomes the
\* current time (so the next one needs more than an interval to pass again);
\* with the server not started the loop returns to polling without a call.
C13_LoopTriggersWhenDue ==
    [][LET called == {r \in Runs : Free(r) /\ pc'[r] = "check_busy" /\ ~source'[r]}
       IN /\ (loop_pc = "poll" /\ loop_pc' = "startup")
                => (~_stop_event /\ enabled /\ now - last_backup_time > backup_interval)
          /\ called # {}
                => /\ loop_pc = "startup" /\ loop_pc' = "poll"
                   /\ server_startup
                   /\ now - last_backup_time > backup_interval
                   /\ Cardinality(called) = 1
                   /\ last_backup_time' = now
          /\ (loop_pc = "startup" /\ loop_pc' = "poll")
                => (server_startup <=> called # {})]_vars

\* the loop has triggered a second scheduled call, more than an interval after
\* the first, and is polling again
C13_Witness ==
    /\ loop_pc = "poll"
    /\ last_backup_time > 1
    /\ \E r \in Runs : pc[r] = "check_busy" /\ ~source[r]

\* the loop's wait of line 305 returns: a poll that changes the state is made
SpecLoopFair == Spec /\ WF_vars(LoopPoll)

\* C14: stop only sets the stop event, which nothing clears, so calling it
\* again or before start changes nothing more; a poll made with the event set
\* ends the loop, so a polling loop exits once stop has been called (also
\* when it was started after stop); and after the loop has exited no
\* scheduled call is made and last_backup_time stays.
C14_StopIdempotent ==
    /\ [][/\ _stop_event => _stop_event'
          /\ (loop_pc = "poll" /\ _stop_event /\ loop_pc' # loop_pc)
                => loop_pc' = "exited"
          /\ loop_pc = "exited"
                => /\ loop_pc' = "exited"
                   /\ last_backup_time' = last_backup_time
                   /\ \A r \in Runs : pc'[r] = "check_busy" /\ pc[r] # "check_busy"
                                          => source'[r]]_vars
    /\ [](_stop_event /\ loop_pc = "poll" => <>(loop_pc = "exited"))

\* the loop has triggered a scheduled call, has exited after stop, and a
\* manual call is made after that
C14_Witness ==
    /\ loop_pc = "exited" /\ _stop_event
    /\ last_backup_time > 0
    /\ \E r \in Runs : source[r] /\ pc[r] = "check_busy"

\* C15: the loop ends only because stop was signalled.
C15_LoopEndsOnlyOnStop == loop_pc \in {"exited", "died"} => _stop_event

\* the value of a digit run read as a decimal number
RECURSIVE Decimal(_)
Decimal(d) ==
    IF d = <<>> THEN 0 ELSE 10 * Decimal(SubSeq(d, 1, Len(d) - 1)) + DigitVal(d[Len(d)])

\* the seconds of a unit
Seconds(u) == CASE u = "s" -> 1 [] u = "m" -> 60 [] u = "h" -> 3600 [] u = "d" -> 86400

\* a term's value: its digit run (1 if omitted) times its unit's seconds
TermValue(t) == (IF t.digits = <<>> THEN 1 ELSE Decimal(t.digits)) * Seconds(t.unit)

RECURSIVE TermsValue(_)
TermsValue(terms) ==
    IF terms = <<>> THEN 0 ELSE TermValue(Head(terms)) + TermsValue(Tail(terms))

\* C16: for strings a and b that are sequences of terms, parse_interval(a+b)
\* = parse_interval(a) + parse_interval(b), each being the sum of its terms'
\* values; a digit run after the last term adds its value as seconds; the
\* empty string gives 0.
C16_ParseAdditive ==
    iv.done =>
        /\ iv.ab = iv.a + iv.b
        /\ iv.a = TermsValue(SubSeq(iv.terms, 1, iv.k))
        /\ iv.b = TermsValue(SubSeq(iv.terms, iv.k + 1, Len(iv.terms)))
        /\ iv.abtail = iv.ab + Decimal(iv.tail)
        /\ (iv.terms = <<>> /\ iv.tail = <<>>) => iv.abtail = 0

\* parsed: two non-empty parts, a term without a digit run, a term with a
\* two-digit run, and a digit run at the end
C16_Witness ==
    /\ iv.done
    /\ 0 < iv.k /\ iv.k < Len(iv.terms)
    /\ \E i \in 1..Len(iv.terms) : iv.terms[i].digits = <<>>
    /\ \E i \in 1..Len(iv.terms) : Len(iv.terms[i].digits) = 2
    /\ iv.tail # <<>>
    /\ iv.abtail > iv.ab /\ iv.ab > iv.a /\ iv.a > 0

\* n is a multiple of k
MultipleOf(n, k) == \E j \in 0..n : n = j * k

\* C17: for every total >= 1 and done in 1..total, send_now returns without
\* raising, and emits a status line exactly when done is a multiple of the
\* integer part of total/8 or done = total.
C17_ThrottleWellDefined ==
    sn.out # "none" =>
        /\ sn.out # "raised"
        /\ sn.out = "emitted" <=> (MultipleOf(sn.now, sn.all \div 8) \/ sn.now = sn.all)

\* a run that has taken up the guard and not yet reached its release
InFlight(r) == pc[r] \in {"clear", "wait", "pkg_name", "pkg_file", "fin_release"}

\* C18: on_mcdr_stop never fails, and it waits for the guard only while a run
\* is in flight: it is not left waiting on a held guard with no run in flight.
C18_DrainReturns ==
    /\ drain_pc # "failed"
    /\ (drain_pc = "acquire" /\ creating_backup) => \E r \in Runs : InFlight(r)

\* C19: from a run's "save-off" until it stops writing its archive, the
\* host's automatic saving stays off: no "save-on" is issued meanwhile.
C19_AutosaveSuspended == \A r \in Runs : Active(r) => ~autosave

\* the instances that wait for the acknowledgment with and without a timeout
InitAck ==
    /\ Init
    /\ files_rules = << <<"*">> >>
    /\ interval = <<"0", "s">>

\* a create_backup thread that has sent "save-all flush" keeps running: it
\* reaches its wait, and the wait returns when the event is set or the
\* timeout has passed
SpecAck ==
    /\ InitAck /\ [][Next]_vars
    /\ \A r \in Runs : WF_vars(Clear(r)) /\ WF_vars(WaitSaved(r)) /\ WF_vars(WaitTimeout(r))

\* C20: a run for which a matching message has been taken up after its
\* "save-all flush" and before its wait has ended goes on to packaging.
C20_AckNeverLost ==
    \A r \in Runs : [](SaveAwaiting(r) /\ hist[r].acked => <>hist[r].packaging)

====
